---- MODULE Spec2Model ----
(***************************************************************************)
(* Model of socketserver/server/backend.go: the RPC forwarding layer to    *)
(* the backend (SendRemoteCommand, SendRemoteCommandCached,                *)
(* SendAggregatedData, SendNewTopicNotice, SendCleanupTopicsNotice), its   *)
(* response cache and its lastSuccess health map.                          *)
(*                                                                         *)
(* Strings are sequences of one-character strings, so that Sprintf         *)
(* concatenation, IndexRune, TrimSpace, ParseInt and json.Unmarshal are    *)
(* computed character by character.                                        *)
(***************************************************************************)
EXTENDS Integers, Sequences, FiniteSets, TLC

(***************************************************************************)
(* Bounds of the model.                                                    *)
(***************************************************************************)
\* number of concurrent callers (goroutines) of the backend object
NumProcs == 2
\* total number of calls started in one behaviour
MaxCalls == 2
\* number of times the wall clock is found advanced in one behaviour
MaxTicks == 2
\* wall-clock time at which the model starts, in seconds after the epoch
BootSecs == 1
\* width of Go's int64 (time.Duration, UnixNano, ParseInt bitSize), scaled
IntBits == 10
\* time.Second in clock units (Go: 1e9 nanoseconds), scaled
Second == 2

(***************************************************************************)
(* Program constants.                                                      *)
(***************************************************************************)
\* cache.New(60*time.Second, ...)
DefaultExpirationSecs == 60
StatusUnauthorized == 401
StatusOKMin == 200
StatusOKMax == 299

Procs == 1..NumProcs

(***************************************************************************)
(* Wrapping integer arithmetic of width IntBits.                           *)
(***************************************************************************)
Pow2(n) == LET RECURSIVE P(_)
               P(k) == IF k = 0 THEN 1 ELSE 2 * P(k - 1)
           IN P(n)

MaxInt == Pow2(IntBits - 1) - 1
MinInt == 0 - Pow2(IntBits - 1)

Wrap(x) == ((x - MinInt) % Pow2(IntBits)) + MinInt

(***************************************************************************)
(* String literals of the source, as character sequences.                  *)
(***************************************************************************)
bPathAnnounceStartup == <<"/", "s", "t", "a", "r", "t", "u", "p">>
bPathAddTopic == <<"/", "t", "o", "p", "i", "c", "s">>
bPathAggStats == <<"/", "s", "t", "a", "t", "s">>
bPathOtherCommand == <<"/", "c", "m", "d", "/">>

AppJSON == <<"a", "p", "p", "l", "i", "c", "a", "t", "i", "o", "n", "/", "j", "s", "o", "n">>
TextPlain == <<"t", "e", "x", "t", "/", "p", "l", "a", "i", "n">>
CharsetParam == <<"c", "h", "a", "r", "s", "e", "t", "=", "u", "t", "f", "-", "8">>

EmptyStr == << >>

\* fmt.Sprintf("%s/%s", remoteCommand, data)
getCacheKey(remoteCommand, data) == remoteCommand \o <<"/">> \o data

\* (mutant) the "/cmd" part is left out of the bucket's name
healthBucketNoPrefix(remoteCommand) == <<"/">> \o remoteCommand

\* fmt.Sprintf("/cmd/%s", remoteCommand)
healthBucketOf(remoteCommand) == <<"/", "c", "m", "d", "/">> \o remoteCommand

(***************************************************************************)
(* strings.IndexRune and strings.TrimSpace.                                *)
(***************************************************************************)
\* index of the first occurrence of r in s (1-based), 0 when absent
\* (Go: 0-based, -1 when absent)
IndexRune(s, r) ==
    IF \E i \in 1..Len(s) : s[i] = r
    THEN CHOOSE i \in 1..Len(s) : s[i] = r /\ \A j \in 1..(i - 1) : s[j] # r
    ELSE 0

IsSpace(c) == c \in {" ", "\t", "\n", "\r"}

TrimSpace(s) ==
    LET idx == {i \in 1..Len(s) : ~IsSpace(s[i])}
    IN IF idx = {} THEN EmptyStr
       ELSE LET lo == CHOOSE i \in idx : \A j \in idx : i <= j
                hi == CHOOSE i \in idx : \A j \in idx : i >= j
            IN SubSeq(s, lo, hi)

\* (mutant) the part before the ';' is not trimmed
BaseMediaTypeUntrimmed(typeStr) ==
    LET splitIdx == IndexRune(typeStr, ";")
    IN IF splitIdx # 0 THEN SubSeq(typeStr, 1, splitIdx - 1)
       ELSE typeStr

\* The base media type of a Content-Type header, as SendRemoteCommand
\* computes it: cut at the first ';' and trim, only when a ';' is present.
BaseMediaType(typeStr) ==
    LET splitIdx == IndexRune(typeStr, ";")
    IN IF splitIdx # 0 THEN TrimSpace(SubSeq(typeStr, 1, splitIdx - 1))
       ELSE typeStr

(***************************************************************************)
(* strconv.ParseInt(s, 10, 64), with the integer width scaled to IntBits.  *)
(***************************************************************************)
Digits == <<"0", "1", "2", "3", "4", "5", "6", "7", "8", "9">>
IsDigit(c) == \E i \in 1..10 : Digits[i] = c
DigitVal(c) == (CHOOSE i \in 1..10 : Digits[i] = c) - 1

\* value of a digit string, saturating just above the representable range
RECURSIVE ParseUintFrom(_, _, _)
ParseUintFrom(s, i, acc) ==
    IF i > Len(s) THEN acc
    ELSE LET n == acc * 10 + DigitVal(s[i])
         IN IF n > MaxInt + 1 THEN MaxInt + 2
            ELSE ParseUintFrom(s, i + 1, n)

\* [ok |-> FALSE] on a syntax or range error, else [ok |-> TRUE, val |-> n]
ParseInt(s) ==
    LET neg == Len(s) > 0 /\ s[1] = "-"
        signed == Len(s) > 0 /\ s[1] \in {"+", "-"}
        ds == IF signed THEN Tail(s) ELSE s
    IN IF Len(ds) = 0 \/ \E i \in 1..Len(ds) : ~IsDigit(ds[i])
       THEN [ok |-> FALSE, val |-> 0]
       ELSE LET un == ParseUintFrom(ds, 1, 0)
            IN IF ~neg /\ un > MaxInt THEN [ok |-> FALSE, val |-> 0]
               ELSE IF neg /\ un > MaxInt + 1 THEN [ok |-> FALSE, val |-> 0]
               ELSE [ok |-> TRUE, val |-> IF neg THEN 0 - un ELSE un]

(***************************************************************************)
(* json.Unmarshal(respBytes, &err2.JSONError) into an untyped value, for   *)
(* JSON texts without fractions, exponents or string escapes.  A value is  *)
(* a tagged tuple; an object is a map from key to value, as Go's           *)
(* map[string]interface{} (a repeated key keeps its last value).           *)
(***************************************************************************)
At(s, i) == IF i >= 1 /\ i <= Len(s) THEN s[i] ELSE "EOF"

RECURSIVE SkipWS(_, _)
SkipWS(s, i) == IF IsSpace(At(s, i)) THEN SkipWS(s, i + 1) ELSE i

HasPrefixAt(s, i, lit) ==
    /\ i + Len(lit) - 1 <= Len(s)
    /\ SubSeq(s, i, i + Len(lit) - 1) = lit

JSONFail == [ok |-> FALSE, val |-> <<"null">>, next |-> 0]
JSONOk(v, n) == [ok |-> TRUE, val |-> v, next |-> n]

\* s[i] is the opening quote; the string ends at the next quote
ParseJSONString(s, i) ==
    LET close == {j \in (i + 1)..Len(s) : s[j] = "\""}
    IN IF close = {} THEN JSONFail
       ELSE LET j == CHOOSE k \in close : \A m \in close : k <= m
            IN JSONOk(<<"str", SubSeq(s, i + 1, j - 1)>>, j + 1)

RECURSIVE DigitsEnd(_, _)
DigitsEnd(s, i) == IF IsDigit(At(s, i)) THEN DigitsEnd(s, i + 1) ELSE i

\* -? (0 | [1-9][0-9]*)
ParseJSONNumber(s, i) ==
    LET st == IF At(s, i) = "-" THEN i + 1 ELSE i
        en == IF At(s, st) = "0" THEN st + 1 ELSE DigitsEnd(s, st)
    IN IF en = st THEN JSONFail
       ELSE JSONOk(<<"num", SubSeq(s, i, en - 1)>>, en)

RECURSIVE ParseJSONValue(_, _)
RECURSIVE ParseJSONElems(_, _, _)
RECURSIVE ParseJSONMembers(_, _, _)

\* the value starting at s[i] (no leading white space)
ParseJSONValue(s, i) ==
    LET c == At(s, i)
    IN CASE c = "n" -> IF HasPrefixAt(s, i, <<"n", "u", "l", "l">>)
                       THEN JSONOk(<<"null">>, i + 4) ELSE JSONFail
         [] c = "t" -> IF HasPrefixAt(s, i, <<"t", "r", "u", "e">>)
                       THEN JSONOk(<<"bool", TRUE>>, i + 4) ELSE JSONFail
         [] c = "f" -> IF HasPrefixAt(s, i, <<"f", "a", "l", "s", "e">>)
                       THEN JSONOk(<<"bool", FALSE>>, i + 5) ELSE JSONFail
         [] c = "\"" -> ParseJSONString(s, i)
         [] c = "-" \/ IsDigit(c) -> ParseJSONNumber(s, i)
         [] c = "[" -> LET j == SkipWS(s, i + 1)
                       IN IF At(s, j) = "]" THEN JSONOk(<<"arr", << >> >>, j + 1)
                          ELSE ParseJSONElems(s, j, << >>)
         [] c = "{" -> LET j == SkipWS(s, i + 1)
                       IN IF At(s, j) = "}" THEN JSONOk(<<"obj", << >> >>, j + 1)
                          ELSE ParseJSONMembers(s, j, << >>)
         [] OTHER -> JSONFail

\* the elements of an array from s[i] on, after acc
ParseJSONElems(s, i, acc) ==
    LET v == ParseJSONValue(s, i)
    IN IF ~v.ok THEN JSONFail
       ELSE LET j == SkipWS(s, v.next)
                vals == Append(acc, v.val)
            IN IF At(s, j) = "," THEN ParseJSONElems(s, SkipWS(s, j + 1), vals)
               ELSE IF At(s, j) = "]" THEN JSONOk(<<"arr", vals>>, j + 1)
               ELSE JSONFail

\* the members of an object from s[i] on, after acc (a sequence of
\* <<key, value>> pairs in which a key occurs once, holding its last value)
ParseJSONMembers(s, i, acc) ==
    IF At(s, i) # "\"" THEN JSONFail
    ELSE LET k == ParseJSONString(s, i)
         IN IF ~k.ok THEN JSONFail
            ELSE LET j == SkipWS(s, k.next)
                 IN IF At(s, j) # ":" THEN JSONFail
                    ELSE LET v == ParseJSONValue(s, SkipWS(s, j + 1))
                         IN IF ~v.ok THEN JSONFail
                            ELSE LET m == SkipWS(s, v.next)
                                     kept == SelectSeq(acc, LAMBDA e : e[1] # k.val[2])
                                     mem == Append(kept, <<k.val[2], v.val>>)
                                 IN IF At(s, m) = ","
                                    THEN ParseJSONMembers(s, SkipWS(s, m + 1), mem)
                                    ELSE IF At(s, m) = "}"
                                    THEN JSONOk(<<"obj", mem>>, m + 1)
                                    ELSE JSONFail

\* [ok |-> FALSE] when s is not one JSON value, else the decoded value
Unmarshal(s) ==
    LET i == SkipWS(s, 1)
        v == ParseJSONValue(s, i)
    IN IF ~v.ok THEN [ok |-> FALSE, val |-> <<"null">>]
       ELSE IF SkipWS(s, v.next) # Len(s) + 1 THEN [ok |-> FALSE, val |-> <<"null">>]
       ELSE [ok |-> TRUE, val |-> v.val]

(***************************************************************************)
(* The response cache (github.com/patrickmn/go-cache), as setupBackend     *)
(* builds it and as SendRemoteCommand and SendRemoteCommandCached use it.  *)
(* An item is [Object, Expiration]; Expiration 0 means "never expires".    *)
(***************************************************************************)
\* cache.New(60*time.Second, 10*time.Minute): the default expiration
defaultExpiration == Wrap(DefaultExpirationSecs * Second)

\* time.Duration(durSecs) * time.Second
DurationOfSecs(durSecs) == Wrap(durSecs * Second)

\* responseCache.Set(k, x, d) at wall-clock time now: a duration of 0 is
\* replaced by the default expiration, a negative one never expires
cacheSet(items, k, x, d, now) ==
    LET dd == IF d = 0 THEN defaultExpiration ELSE d
        e == IF dd > 0 THEN Wrap(now + dd) ELSE 0
    IN [kk \in DOMAIN items \cup {k} |->
           IF kk = k THEN [Object |-> x, Expiration |-> e] ELSE items[kk]]

\* (mutant) an item counts as expired at the very instant it expires
ExpiredAtInstant(item, now) == item.Expiration > 0 /\ now >= item.Expiration

\* whether an item is expired at wall-clock time now
Expired(item, now) == item.Expiration > 0 /\ now > item.Expiration

\* responseCache.Get(k) at wall-clock time now
cacheGet(items, k, now) ==
    IF k \notin DOMAIN items THEN [found |-> FALSE, val |-> EmptyStr]
    ELSE IF Expired(items[k], now) THEN [found |-> FALSE, val |-> EmptyStr]
    ELSE [found |-> TRUE, val |-> items[k].Object]

(***************************************************************************)
(* Errors.                                                                 *)
(***************************************************************************)
MkErr(kind, code, json, text) ==
    [kind |-> kind, code |-> code, json |-> json, text |-> text]

ErrNil == MkErr("nil", 0, << >>, EmptyStr)
\* the sentinel errors.New("Must authenticate Twitch username ...")
ErrAuthorizationNeeded == MkErr("ErrAuthorizationNeeded", 0, << >>, EmptyStr)
\* ErrForwardedFromBackend{JSONError: v}
ErrForwardedFromBackend(v) == MkErr("ErrForwardedFromBackend", 0, v, EmptyStr)
\* fmt.Errorf("error decoding json error from backend: %v | %s", err, responseStr)
ErrDecodeJSON(responseStr) == MkErr("errDecodeJSON", 0, << >>, responseStr)
\* fmt.Errorf("backend http error: %d", statusCode)
httpError(statusCode) == MkErr("httpError", statusCode, << >>, EmptyStr)
\* fmt.Errorf("The RPC server returned a non-integer cache duration: %v", err)
ErrNonIntegerCacheDuration == MkErr("errNonIntegerCacheDuration", 0, << >>, EmptyStr)
\* ErrBackendNotOK{Code: code, Response: response}
ErrBackendNotOK(code, response) == MkErr("ErrBackendNotOK", code, << >>, response)
\* errors of the collaborators: secureForm.Seal, HTTPClient.PostForm,
\* ioutil.ReadAll, resp.Body.Close
ErrSeal == MkErr("errSeal", 0, << >>, EmptyStr)
ErrTransport == MkErr("errTransport", 0, << >>, EmptyStr)
ErrReadBody == MkErr("errReadBody", 0, << >>, EmptyStr)
ErrClose == MkErr("errClose", 0, << >>, EmptyStr)
\* fmt.Sprintf("(error reading non-2xx response): %s", err.Error())
ErrorReadingText == <<"(", "e", "r", "r", "o", "r", " ", "r", "e", "a", "d", "i", "n", "g", ")">>

\* The error for a non-2xx response other than 401, from its status, its
\* Content-Type header and its body.
ClassifyError(statusCode, contentType, respBytes) ==
    IF BaseMediaType(contentType) = AppJSON
    THEN LET u == Unmarshal(respBytes)
         IN IF ~u.ok THEN ErrDecodeJSON(respBytes)
            ELSE ErrForwardedFromBackend(u.val)
    ELSE httpError(statusCode)

\* (mutant) the non-2xx branch is tested before the 401 branch
StatusErrorNon2xxFirst(r) ==
    IF r.StatusCode < StatusOKMin \/ r.StatusCode > StatusOKMax
    THEN ClassifyError(r.StatusCode, r.ContentType, r.Body)
    ELSE IF r.StatusCode = StatusUnauthorized THEN ErrAuthorizationNeeded
    ELSE ErrNil

\* The branch of SendRemoteCommand on the status of response r: the error
\* it returns, ErrNil when it goes on to the 2xx path.
StatusError(r) ==
    IF r.StatusCode = StatusUnauthorized THEN ErrAuthorizationNeeded
    ELSE IF r.StatusCode < StatusOKMin \/ r.StatusCode > StatusOKMax
    THEN ClassifyError(r.StatusCode, r.ContentType, r.Body)
    ELSE ErrNil

\* strings.Join(topics, ",")
RECURSIVE Join(_)
Join(topics) ==
    IF Len(topics) = 0 THEN EmptyStr
    ELSE IF Len(topics) = 1 THEN topics[1]
    ELSE topics[1] \o <<",">> \o Join(Tail(topics))

(***************************************************************************)
(* Inputs: the arguments callers pass and the responses the backend gives. *)
(***************************************************************************)
CmdA == <<"a">>
CmdAB == <<"a", "/", "b">>
DataC == <<"c">>
DataBC == <<"b", "/", "c">>
\* (remoteCommand, data) pairs
Requests == {<<CmdA, DataC>>, <<CmdA, DataBC>>, <<CmdAB, DataC>>}

MkAuth(u, v) == [TwitchUsername |-> u, UsernameValidated |-> v]
NoAuth == MkAuth(EmptyStr, FALSE)
Auths == {MkAuth(<<"u">>, TRUE), MkAuth(<<"u">>, FALSE), MkAuth(<<"v">>, TRUE)}

TopicR == <<"r">>
TopicS == <<"s">>
TopicLists == {<< >>, <<TopicR, TopicS>>}

BodyR1 == <<"r", "1">>
BodyR2 == <<"r", "2">>
BodyJSON == <<"{", "\"", "e", "\"", ":", " ", "1", "}">>
BodyOops == <<"o", "o", "p", "s">>

MkResp(s, ct, b, h) ==
    [StatusCode |-> s, ContentType |-> ct, Body |-> b, FFZCache |-> h]
NoResp == MkResp(0, EmptyStr, EmptyStr, EmptyStr)

\* responses of the backend to POST /cmd/<name>; FFZCache is the value of
\* the FFZ-Cache header ("" when the header is absent)
CommandResponses ==
    {MkResp(200, TextPlain, BodyR1, EmptyStr),
     MkResp(200, TextPlain, BodyR1, <<"1">>),
     MkResp(200, TextPlain, BodyR2, <<"1">>),
     MkResp(200, TextPlain, BodyR1, <<"0">>),
     MkResp(200, TextPlain, BodyR2, <<"-", "1">>),
     MkResp(200, TextPlain, BodyR1, <<"3", "0", "0">>),
     MkResp(200, TextPlain, BodyR2, <<"x">>),
     MkResp(299, AppJSON, BodyJSON, <<"1">>),
     MkResp(401, AppJSON, BodyJSON, EmptyStr),
     MkResp(401, TextPlain, BodyOops, <<"1">>),
     MkResp(500, AppJSON, BodyJSON, EmptyStr),
     MkResp(500, AppJSON \o <<";", " ">> \o CharsetParam, BodyJSON, <<"1">>),
     MkResp(500, AppJSON \o <<" ", ";">>, BodyOops, EmptyStr),
     MkResp(500, TextPlain, BodyJSON, <<"x">>),
     MkResp(404, TextPlain \o <<";">> \o AppJSON, BodyJSON, EmptyStr),
     MkResp(300, EmptyStr, BodyOops, EmptyStr),
     MkResp(101, AppJSON, BodyOops, EmptyStr)}

\* the responses to POST /cmd/<name> in the runs with concurrent callers
PlainCommandResponses ==
    {MkResp(200, TextPlain, BodyR1, EmptyStr),
     MkResp(200, TextPlain, BodyR2, <<"1">>),
     MkResp(500, TextPlain, BodyOops, EmptyStr)}

\* responses of the backend to POST /stats and POST /topics
OtherResponses ==
    {MkResp(s, TextPlain, BodyOops, EmptyStr) : s \in {101, 200, 299, 300, 401}}

(***************************************************************************)
(* State.                                                                  *)
(***************************************************************************)
VARIABLES
    clock,            \* wall-clock time at its latest reading, in clock units
    ticks,            \* how many clock steps the readings have found so far
    ncalls,           \* how many calls have been started
    responseCache,    \* backend.responseCache: key -> item
    lastSuccess,      \* backend.lastSuccess: bucket -> time
    lastSuccessLock,  \* backend.lastSuccessLock: 0 (free) or the holder
    call,             \* per caller: the running call, its locals and result
    lastStore,        \* history: key -> the last responseCache.Set for it
                      \* and the request whose response it stored
    callers           \* the goroutines that call the backend in this run

vars == <<clock, ticks, ncalls, responseCache, lastSuccess, lastSuccessLock,
          call, lastStore, callers>>

MkRet(s, e) == [responseStr |-> s, err |-> e]

IdleCall ==
    [pc |-> "idle", op |-> "none", remoteCommand |-> EmptyStr, data |-> EmptyStr,
     auth |-> NoAuth, channels |-> EmptyStr, added |-> FALSE, resp |-> NoResp,
     responseStr |-> EmptyStr, now |-> 0, ret |-> MkRet(EmptyStr, ErrNil),
     posts |-> 0, start |-> 0, hit |-> FALSE]

\* time.Unix(0, 0).UTC()
epochTime == 0

Init ==
    /\ clock = BootSecs * Second
    /\ ticks = 0
    /\ ncalls = 0
    /\ responseCache = << >>
    /\ lastSuccess = [b \in {bPathAnnounceStartup, bPathAddTopic, bPathAggStats,
                             bPathOtherCommand} |-> epochTime]
    /\ lastSuccessLock = 0
    /\ call = [p \in Procs |-> IdleCall]
    /\ lastStore = << >>
    /\ callers \in {{1}, Procs}

CanCall(p) ==
    /\ p \in callers
    /\ call[p].pc \in {"idle", "done"}
    /\ ncalls < MaxCalls

\* what the backend may answer to POST /cmd/<name> in this run
BackendCommandResponses ==
    IF callers = {1} THEN CommandResponses ELSE PlainCommandResponses

NewCall(op) == [IdleCall EXCEPT !.op = op]

\* the call of p returns (s, e); its locals die
Return(p, s, e) ==
    [call[p] EXCEPT !.pc = "done", !.ret = MkRet(s, e), !.auth = NoAuth,
                    !.channels = EmptyStr, !.responseStr = EmptyStr, !.now = 0]

MapSet(m, k, v) == [kk \in DOMAIN m \cup {k} |-> IF kk = k THEN v ELSE m[kk]]

(***************************************************************************)
(* The wall clock.  Time passes unseen between two readings of the clock:  *)
(* a reading finds the clock where the latest reading left it, or later by *)
(* some seconds and default expirations.                                   *)
(***************************************************************************)
\* the advances of the clock made of n steps, each of one second or of the
\* default expiration
RECURSIVE TickSums(_)
TickSums(n) ==
    IF n = 0 THEN {0}
    ELSE {s + d * Second : s \in TickSums(n - 1), d \in {1, DefaultExpirationSecs}}

\* time.Now(): clock' is the time read
TimePasses ==
    \E n \in 0..(MaxTicks - ticks) :
       \E adv \in TickSums(n) :
          /\ clock + adv <= MaxInt
          /\ clock' = clock + adv
          /\ ticks' = ticks + n

\* responseCache.Get reads the clock for an item that can expire
GetReadsClock(k) ==
    k \in DOMAIN responseCache /\ responseCache[k].Expiration > 0

\* responseCache.Set reads the clock for a duration that ends
SetReadsClock(d) == (IF d = 0 THEN defaultExpiration ELSE d) > 0

(***************************************************************************)
(* SendRemoteCommandCached and SendRemoteCommand.                          *)
(***************************************************************************)
\* a caller invokes SendRemoteCommand(remoteCommand, data, auth)
CallSendRemoteCommand(p) ==
    /\ CanCall(p)
    /\ \E rq \in Requests, a \in Auths :
          call' = [call EXCEPT ![p] =
                      [NewCall("SendRemoteCommand") EXCEPT
                          !.pc = "src_seal", !.remoteCommand = rq[1],
                          !.data = rq[2], !.auth = a]]
    /\ ncalls' = ncalls + 1
    /\ UNCHANGED <<clock, ticks, responseCache, lastSuccess, lastSuccessLock,
                   lastStore, callers>>

\* a caller invokes SendRemoteCommandCached(remoteCommand, data, auth)
CallSendRemoteCommandCached(p) ==
    /\ CanCall(p)
    /\ \E rq \in Requests, a \in Auths :
          call' = [call EXCEPT ![p] =
                      [NewCall("SendRemoteCommandCached") EXCEPT
                          !.pc = "cached_get", !.remoteCommand = rq[1],
                          !.data = rq[2], !.auth = a]]
    /\ ncalls' = ncalls + 1
    /\ UNCHANGED <<clock, ticks, responseCache, lastSuccess, lastSuccessLock,
                   lastStore, callers>>

\* (mutant) only callers with a validated username are served from the cache
CachedLookupValidatedOnly(items, now, remoteCommand, data, auth) ==
    IF auth.UsernameValidated
    THEN cacheGet(items, getCacheKey(remoteCommand, data), now)
    ELSE [found |-> FALSE, val |-> EmptyStr]

\* the cache lookup of SendRemoteCommandCached(remoteCommand, data, auth)
\* in cache items at time now
CachedLookup(items, now, remoteCommand, data, auth) ==
    cacheGet(items, getCacheKey(remoteCommand, data), now)

\* SendRemoteCommandCached with locals c, at the lookup made at time now: c
\* after it, either returned with the cached value or delegating to
\* SendRemoteCommand
CachedGetStep(c, now) ==
    LET got == CachedLookup(responseCache, now, c.remoteCommand, c.data, c.auth)
    IN IF got.found
       THEN [c EXCEPT !.pc = "done", !.ret = MkRet(got.val, ErrNil),
                      !.hit = TRUE]
       ELSE [c EXCEPT !.pc = "src_seal"]

\* (mutant) single flight: a lookup that misses while another call for the
\* same key is under way waits for that call instead of delegating
CachedGetSingleFlight(p) ==
    /\ call[p].pc = "cached_get"
    /\ IF GetReadsClock(getCacheKey(call[p].remoteCommand, call[p].data))
       THEN TimePasses ELSE UNCHANGED <<clock, ticks>>
    /\ call' = [call EXCEPT ![p] =
                   IF /\ ~CachedGetStep(call[p], clock').hit
                      /\ \E q \in Procs \ {p} :
                            /\ call[q].pc \in {"src_seal", "src_post", "src_wait"}
                            /\ getCacheKey(call[q].remoteCommand, call[q].data)
                                  = getCacheKey(call[p].remoteCommand, call[p].data)
                   THEN [call[p] EXCEPT !.pc = "shared_wait"]
                   ELSE CachedGetStep(call[p], clock')]
    /\ UNCHANGED <<ncalls, responseCache, lastSuccess,
                   lastSuccessLock, lastStore, callers>>

\* SendRemoteCommandCached: the lookup, then the cached value or the
\* delegation to SendRemoteCommand
CachedGet(p) ==
    /\ call[p].pc = "cached_get"
    /\ IF GetReadsClock(getCacheKey(call[p].remoteCommand, call[p].data))
       THEN TimePasses ELSE UNCHANGED <<clock, ticks>>
    /\ call' = [call EXCEPT ![p] = CachedGetStep(call[p], clock')]
    /\ UNCHANGED <<ncalls, responseCache, lastSuccess,
                   lastSuccessLock, lastStore, callers>>

\* SendRemoteCommand: build the form and seal it
SrcSeal(p) ==
    /\ call[p].pc = "src_seal"
    /\ \E sealed \in BOOLEAN :
          call' = [call EXCEPT ![p] =
                      IF sealed THEN [call[p] EXCEPT !.pc = "src_post", !.auth = NoAuth]
                      ELSE Return(p, EmptyStr, ErrSeal)]
    /\ UNCHANGED <<clock, ticks, ncalls, responseCache, lastSuccess,
                   lastSuccessLock, lastStore,
                   callers>>

\* SendRemoteCommand: HTTPClient.PostForm sends the request
SrcPost(p) ==
    /\ call[p].pc = "src_post"
    /\ call' = [call EXCEPT ![p].pc = "src_wait", ![p].posts = @ + 1]
    /\ UNCHANGED <<clock, ticks, ncalls, responseCache, lastSuccess,
                   lastSuccessLock, lastStore,
                   callers>>

\* (mutant) a transport failure is retried
SrcTransportErrorRetried(p) ==
    /\ call[p].pc = "src_wait"
    /\ call' = [call EXCEPT ![p].pc = "src_post"]
    /\ UNCHANGED <<clock, ticks, ncalls, responseCache, lastSuccess,
                   lastSuccessLock, lastStore, callers>>

\* SendRemoteCommand: PostForm fails
SrcTransportError(p) ==
    /\ call[p].pc = "src_wait"
    /\ call' = [call EXCEPT ![p] = Return(p, EmptyStr, ErrTransport)]
    /\ UNCHANGED <<clock, ticks, ncalls, responseCache, lastSuccess,
                   lastSuccessLock, lastStore,
                   callers>>

\* SendRemoteCommand: PostForm returns a response; ioutil.ReadAll reads
\* its body or fails
SrcResponse(p) ==
    /\ call[p].pc = "src_wait"
    /\ \E r \in BackendCommandResponses, readOK \in BOOLEAN :
          call' = [call EXCEPT ![p] =
                      IF readOK
                      THEN [call[p] EXCEPT !.pc = "src_status", !.resp = r,
                                           !.responseStr = r.Body]
                      ELSE [Return(p, EmptyStr, ErrReadBody) EXCEPT !.resp = r]]
    /\ UNCHANGED <<clock, ticks, ncalls, responseCache, lastSuccess,
                   lastSuccessLock, lastStore,
                   callers>>

\* (mutant) the FFZ-Cache header is honoured before the status is looked
\* at, so the body of an error response is stored too
SrcStatusCachesFirst(p) ==
    /\ call[p].pc = "src_status"
    /\ LET h == call[p].resp.FFZCache
           durSecs == ParseInt(h)
           key == getCacheKey(call[p].remoteCommand, call[p].data)
           e == StatusError(call[p].resp)
       IN /\ IF h # EmptyStr /\ durSecs.ok
             THEN /\ IF SetReadsClock(DurationOfSecs(durSecs.val))
                     THEN TimePasses ELSE UNCHANGED <<clock, ticks>>
                  /\ responseCache' = cacheSet(responseCache, key,
                                               call[p].responseStr,
                                               DurationOfSecs(durSecs.val), clock')
                  /\ lastStore' = MapSet(lastStore, key,
                                         [at |-> clock', hint |-> durSecs.val,
                                          body |-> call[p].responseStr,
                                          req |-> <<call[p].remoteCommand,
                                                    call[p].data>>])
             ELSE UNCHANGED <<responseCache, lastStore, clock, ticks>>
          /\ call' = [call EXCEPT ![p] =
                         IF e # ErrNil THEN Return(p, EmptyStr, e)
                         ELSE [call[p] EXCEPT !.pc = "src_cache"]]
    /\ UNCHANGED <<ncalls, lastSuccess, lastSuccessLock, callers>>

\* SendRemoteCommand: the branch on resp.StatusCode
SrcStatus(p) ==
    /\ call[p].pc = "src_status"
    /\ LET e == StatusError(call[p].resp)
       IN call' = [call EXCEPT ![p] =
                      IF e # ErrNil THEN Return(p, EmptyStr, e)
                      ELSE [call[p] EXCEPT !.pc = "src_cache"]]
    /\ UNCHANGED <<clock, ticks, ncalls, responseCache, lastSuccess,
                   lastSuccessLock, lastStore,
                   callers>>

\* (mutant) a malformed FFZ-Cache header is ignored and the call goes on
SrcCacheHintLenient(p) ==
    /\ call[p].pc = "src_cache"
    /\ LET h == call[p].resp.FFZCache
           durSecs == ParseInt(h)
           key == getCacheKey(call[p].remoteCommand, call[p].data)
       IN IF h = EmptyStr \/ ~durSecs.ok
          THEN /\ call' = [call EXCEPT ![p].pc = "src_now"]
               /\ UNCHANGED <<responseCache, lastStore, clock, ticks>>
          ELSE /\ IF SetReadsClock(DurationOfSecs(durSecs.val))
                  THEN TimePasses ELSE UNCHANGED <<clock, ticks>>
               /\ responseCache' = cacheSet(responseCache, key, call[p].responseStr,
                                            DurationOfSecs(durSecs.val), clock')
               /\ lastStore' = MapSet(lastStore, key,
                                      [at |-> clock', hint |-> durSecs.val,
                                       body |-> call[p].responseStr,
                                       req |-> <<call[p].remoteCommand,
                                                 call[p].data>>])
               /\ call' = [call EXCEPT ![p].pc = "src_now"]
    /\ UNCHANGED <<ncalls, lastSuccess, lastSuccessLock, callers>>

\* (mutant) a 2xx response without FFZ-Cache header evicts the entry of its
\* key
SrcCacheHintEvicts(p) ==
    /\ call[p].pc = "src_cache"
    /\ LET h == call[p].resp.FFZCache
           durSecs == ParseInt(h)
           key == getCacheKey(call[p].remoteCommand, call[p].data)
       IN IF h = EmptyStr
          THEN /\ call' = [call EXCEPT ![p].pc = "src_now"]
               /\ responseCache' = [k \in DOMAIN responseCache \ {key}
                                       |-> responseCache[k]]
               /\ UNCHANGED <<lastStore, clock, ticks>>
          ELSE IF ~durSecs.ok
          THEN /\ call' = [call EXCEPT ![p] =
                              Return(p, EmptyStr, ErrNonIntegerCacheDuration)]
               /\ UNCHANGED <<responseCache, lastStore, clock, ticks>>
          ELSE /\ IF SetReadsClock(DurationOfSecs(durSecs.val))
                  THEN TimePasses ELSE UNCHANGED <<clock, ticks>>
               /\ responseCache' = cacheSet(responseCache, key, call[p].responseStr,
                                            DurationOfSecs(durSecs.val), clock')
               /\ lastStore' = MapSet(lastStore, key,
                                      [at |-> clock', hint |-> durSecs.val,
                                       body |-> call[p].responseStr,
                                       req |-> <<call[p].remoteCommand,
                                                 call[p].data>>])
               /\ call' = [call EXCEPT ![p].pc = "src_now"]
    /\ UNCHANGED <<ncalls, lastSuccess, lastSuccessLock, callers>>

\* SendRemoteCommand: the FFZ-Cache header of a 2xx response
SrcCacheHint(p) ==
    /\ call[p].pc = "src_cache"
    /\ LET h == call[p].resp.FFZCache
           durSecs == ParseInt(h)
           key == getCacheKey(call[p].remoteCommand, call[p].data)
       IN IF h = EmptyStr
          THEN /\ call' = [call EXCEPT ![p].pc = "src_now"]
               /\ UNCHANGED <<responseCache, lastStore, clock, ticks>>
          ELSE IF ~durSecs.ok
          THEN /\ call' = [call EXCEPT ![p] =
                              Return(p, EmptyStr, ErrNonIntegerCacheDuration)]
               /\ UNCHANGED <<responseCache, lastStore, clock, ticks>>
          ELSE /\ IF SetReadsClock(DurationOfSecs(durSecs.val))
                  THEN TimePasses ELSE UNCHANGED <<clock, ticks>>
               /\ responseCache' = cacheSet(responseCache, key, call[p].responseStr,
                                            DurationOfSecs(durSecs.val), clock')
               /\ lastStore' = MapSet(lastStore, key,
                                      [at |-> clock', hint |-> durSecs.val,
                                       body |-> call[p].responseStr,
                                       req |-> <<call[p].remoteCommand,
                                                 call[p].data>>])
               /\ call' = [call EXCEPT ![p].pc = "src_now"]
    /\ UNCHANGED <<ncalls, lastSuccess, lastSuccessLock, callers>>

\* SendRemoteCommand: now := time.Now().UTC()
SrcNow(p) ==
    /\ call[p].pc = "src_now"
    /\ TimePasses
    /\ call' = [call EXCEPT ![p].pc = "src_lock", ![p].now = clock']
    /\ UNCHANGED <<ncalls, responseCache, lastSuccess,
                   lastSuccessLock, lastStore,
                   callers>>

\* (mutant) the lock is taken without waiting for its holder to release it
SrcLockNoWait(p) ==
    /\ call[p].pc = "src_lock"
    /\ lastSuccessLock' = p
    /\ call' = [call EXCEPT ![p].pc = "src_write_other"]
    /\ UNCHANGED <<clock, ticks, ncalls, responseCache, lastSuccess, lastStore,
                   callers>>

\* SendRemoteCommand: backend.lastSuccessLock.Lock()
SrcLock(p) ==
    /\ call[p].pc = "src_lock"
    /\ lastSuccessLock = 0
    /\ lastSuccessLock' = p
    /\ call' = [call EXCEPT ![p].pc = "src_write_other"]
    /\ UNCHANGED <<clock, ticks, ncalls, responseCache, lastSuccess, lastStore,
                   callers>>

\* SendRemoteCommand: backend.lastSuccess[bPathOtherCommand] = now
SrcWriteOther(p) ==
    /\ call[p].pc = "src_write_other"
    /\ lastSuccess' = MapSet(lastSuccess, bPathOtherCommand, call[p].now)
    /\ call' = [call EXCEPT ![p].pc = "src_write_bucket"]
    /\ UNCHANGED <<clock, ticks, ncalls, responseCache, lastSuccessLock, lastStore,
                   callers>>

\* (mutant) the command bucket gets a fresh time.Now() instead of now
SrcWriteBucketFreshNow(p) ==
    /\ call[p].pc = "src_write_bucket"
    /\ TimePasses
    /\ lastSuccess' = MapSet(lastSuccess, healthBucketOf(call[p].remoteCommand),
                             clock')
    /\ call' = [call EXCEPT ![p].pc = "src_return"]
    /\ UNCHANGED <<ncalls, responseCache, lastSuccessLock, lastStore,
                   callers>>

\* SendRemoteCommand: backend.lastSuccess[healthBucket] = now
SrcWriteBucket(p) ==
    /\ call[p].pc = "src_write_bucket"
    /\ lastSuccess' = MapSet(lastSuccess, healthBucketOf(call[p].remoteCommand),
                             call[p].now)
    /\ call' = [call EXCEPT ![p].pc = "src_return"]
    /\ UNCHANGED <<clock, ticks, ncalls, responseCache, lastSuccessLock, lastStore,
                   callers>>

\* (mutant) the Unlock is not deferred: the call returns holding the lock
SrcReturnKeepsLock(p) ==
    /\ call[p].pc = "src_return"
    /\ call' = [call EXCEPT ![p] = Return(p, call[p].responseStr, ErrNil)]
    /\ UNCHANGED <<clock, ticks, ncalls, responseCache, lastSuccess,
                   lastSuccessLock, lastStore, callers>>

\* SendRemoteCommand: return responseStr, nil; the deferred Unlock runs
SrcReturn(p) ==
    /\ call[p].pc = "src_return"
    /\ lastSuccessLock' = 0
    /\ call' = [call EXCEPT ![p] = Return(p, call[p].responseStr, ErrNil)]
    /\ UNCHANGED <<clock, ticks, ncalls, responseCache, lastSuccess, lastStore,
                   callers>>

(***************************************************************************)
(* SendAggregatedData.                                                     *)
(***************************************************************************)
\* a caller invokes SendAggregatedData(form)
CallSendAggregatedData(p) ==
    /\ CanCall(p)
    /\ call' = [call EXCEPT ![p] =
                   [NewCall("SendAggregatedData") EXCEPT !.pc = "agg_seal"]]
    /\ ncalls' = ncalls + 1
    /\ UNCHANGED <<clock, ticks, responseCache, lastSuccess, lastSuccessLock,
                   lastStore, callers>>

\* SendAggregatedData: seal the form
AggSeal(p) ==
    /\ call[p].pc = "agg_seal"
    /\ \E sealed \in BOOLEAN :
          call' = [call EXCEPT ![p] =
                      IF sealed THEN [call[p] EXCEPT !.pc = "agg_post"]
                      ELSE Return(p, EmptyStr, ErrSeal)]
    /\ UNCHANGED <<clock, ticks, ncalls, responseCache, lastSuccess,
                   lastSuccessLock, lastStore, callers>>

\* SendAggregatedData: HTTPClient.PostForm sends the request
AggPost(p) ==
    /\ call[p].pc = "agg_post"
    /\ call' = [call EXCEPT ![p].pc = "agg_wait", ![p].posts = @ + 1]
    /\ UNCHANGED <<clock, ticks, ncalls, responseCache, lastSuccess,
                   lastSuccessLock, lastStore,
                   callers>>

\* SendAggregatedData: PostForm fails
AggTransportError(p) ==
    /\ call[p].pc = "agg_wait"
    /\ call' = [call EXCEPT ![p] = Return(p, EmptyStr, ErrTransport)]
    /\ UNCHANGED <<clock, ticks, ncalls, responseCache, lastSuccess,
                   lastSuccessLock, lastStore,
                   callers>>

\* (mutant) the upper bound of the 2xx range is excluded
AggResponseOffByOne(p) ==
    /\ call[p].pc = "agg_wait"
    /\ \E r \in OtherResponses :
          call' = [call EXCEPT ![p] =
                      IF r.StatusCode < StatusOKMin \/ r.StatusCode >= StatusOKMax
                      THEN [Return(p, EmptyStr, httpError(r.StatusCode))
                               EXCEPT !.resp = r]
                      ELSE [call[p] EXCEPT !.pc = "agg_lock", !.resp = r]]
    /\ UNCHANGED <<clock, ticks, ncalls, responseCache, lastSuccess,
                   lastSuccessLock, lastStore,
                   callers>>

\* SendAggregatedData: PostForm returns a response; a non-2xx status
\* closes the body and returns httpError
AggResponse(p) ==
    /\ call[p].pc = "agg_wait"
    /\ \E r \in OtherResponses :
          call' = [call EXCEPT ![p] =
                      IF r.StatusCode < StatusOKMin \/ r.StatusCode > StatusOKMax
                      THEN [Return(p, EmptyStr, httpError(r.StatusCode))
                               EXCEPT !.resp = r]
                      ELSE [call[p] EXCEPT !.pc = "agg_lock", !.resp = r]]
    /\ UNCHANGED <<clock, ticks, ncalls, responseCache, lastSuccess,
                   lastSuccessLock, lastStore,
                   callers>>

\* SendAggregatedData: backend.lastSuccessLock.Lock()
AggLock(p) ==
    /\ call[p].pc = "agg_lock"
    /\ lastSuccessLock = 0
    /\ lastSuccessLock' = p
    /\ call' = [call EXCEPT ![p].pc = "agg_write"]
    /\ UNCHANGED <<clock, ticks, ncalls, responseCache, lastSuccess, lastStore,
                   callers>>

\* (mutant) the success is also recorded in the generic command bucket
AggWriteAlsoOther(p) ==
    /\ call[p].pc = "agg_write"
    /\ TimePasses
    /\ lastSuccess' = MapSet(MapSet(lastSuccess, bPathAggStats, clock'),
                             bPathOtherCommand, clock')
    /\ call' = [call EXCEPT ![p].pc = "agg_return"]
    /\ UNCHANGED <<ncalls, responseCache, lastSuccessLock, lastStore,
                   callers>>

\* SendAggregatedData: backend.lastSuccess[bPathAggStats] = time.Now().UTC()
AggWrite(p) ==
    /\ call[p].pc = "agg_write"
    /\ TimePasses
    /\ lastSuccess' = MapSet(lastSuccess, bPathAggStats, clock')
    /\ call' = [call EXCEPT ![p].pc = "agg_return"]
    /\ UNCHANGED <<ncalls, responseCache, lastSuccessLock, lastStore,
                   callers>>

\* SendAggregatedData: return resp.Body.Close(); the deferred Unlock runs
AggReturn(p) ==
    /\ call[p].pc = "agg_return"
    /\ lastSuccessLock' = 0
    /\ \E closed \in BOOLEAN :
          call' = [call EXCEPT ![p] =
                      Return(p, EmptyStr, IF closed THEN ErrNil ELSE ErrClose)]
    /\ UNCHANGED <<clock, ticks, ncalls, responseCache, lastSuccess, lastStore,
                   callers>>

(***************************************************************************)
(* SendNewTopicNotice, SendCleanupTopicsNotice and sendTopicNotice.        *)
(***************************************************************************)
\* a caller invokes SendNewTopicNotice(topic); start is the time of the call
CallSendNewTopicNotice(p) ==
    /\ CanCall(p)
    /\ TimePasses
    /\ \E topic \in {TopicR} :
          call' = [call EXCEPT ![p] =
                      [NewCall("SendNewTopicNotice") EXCEPT
                          !.pc = "topic_seal", !.channels = topic, !.added = TRUE,
                          !.start = clock']]
    /\ ncalls' = ncalls + 1
    /\ UNCHANGED <<responseCache, lastSuccess, lastSuccessLock,
                   lastStore, callers>>

\* a caller invokes SendCleanupTopicsNotice(topics); start is the time of
\* the call
CallSendCleanupTopicsNotice(p) ==
    /\ CanCall(p)
    /\ TimePasses
    /\ \E topics \in TopicLists :
          call' = [call EXCEPT ![p] =
                      [NewCall("SendCleanupTopicsNotice") EXCEPT
                          !.pc = "topic_seal", !.channels = Join(topics),
                          !.added = FALSE, !.start = clock']]
    /\ ncalls' = ncalls + 1
    /\ UNCHANGED <<responseCache, lastSuccess, lastSuccessLock,
                   lastStore, callers>>

\* sendTopicNotice: build the form and seal it
TopicSeal(p) ==
    /\ call[p].pc = "topic_seal"
    /\ \E sealed \in BOOLEAN :
          call' = [call EXCEPT ![p] =
                      IF sealed
                      THEN [call[p] EXCEPT !.pc = "topic_post",
                                           !.channels = EmptyStr]
                      ELSE Return(p, EmptyStr, ErrSeal)]
    /\ UNCHANGED <<clock, ticks, ncalls, responseCache, lastSuccess,
                   lastSuccessLock, lastStore,
                   callers>>

\* sendTopicNotice: HTTPClient.PostForm sends the request
TopicPost(p) ==
    /\ call[p].pc = "topic_post"
    /\ call' = [call EXCEPT ![p].pc = "topic_wait", ![p].posts = @ + 1]
    /\ UNCHANGED <<clock, ticks, ncalls, responseCache, lastSuccess,
                   lastSuccessLock, lastStore,
                   callers>>

\* sendTopicNotice: PostForm fails
TopicTransportError(p) ==
    /\ call[p].pc = "topic_wait"
    /\ call' = [call EXCEPT ![p] = Return(p, EmptyStr, ErrTransport)]
    /\ UNCHANGED <<clock, ticks, ncalls, responseCache, lastSuccess,
                   lastSuccessLock, lastStore,
                   callers>>

\* sendTopicNotice: PostForm returns a response; a non-2xx status reads
\* the body (or fails to) and returns ErrBackendNotOK
TopicResponse(p) ==
    /\ call[p].pc = "topic_wait"
    /\ \E r \in OtherResponses, readOK \in BOOLEAN :
          call' = [call EXCEPT ![p] =
                      IF r.StatusCode < StatusOKMin \/ r.StatusCode > StatusOKMax
                      THEN [Return(p, EmptyStr,
                                   ErrBackendNotOK(r.StatusCode,
                                       IF readOK THEN r.Body ELSE ErrorReadingText))
                               EXCEPT !.resp = r]
                      ELSE [call[p] EXCEPT !.pc = "topic_lock", !.resp = r]]
    /\ UNCHANGED <<clock, ticks, ncalls, responseCache, lastSuccess,
                   lastSuccessLock, lastStore,
                   callers>>

\* sendTopicNotice: backend.lastSuccessLock.Lock()
TopicLock(p) ==
    /\ call[p].pc = "topic_lock"
    /\ lastSuccessLock = 0
    /\ lastSuccessLock' = p
    /\ call' = [call EXCEPT ![p].pc = "topic_write"]
    /\ UNCHANGED <<clock, ticks, ncalls, responseCache, lastSuccess, lastStore,
                   callers>>

\* (mutant) the success is recorded in the aggregate-stats bucket
TopicWriteAggStats(p) ==
    /\ call[p].pc = "topic_write"
    /\ TimePasses
    /\ lastSuccess' = MapSet(lastSuccess, bPathAggStats, clock')
    /\ call' = [call EXCEPT ![p].pc = "topic_return"]
    /\ UNCHANGED <<ncalls, responseCache, lastSuccessLock, lastStore,
                   callers>>

\* sendTopicNotice: backend.lastSuccess[bPathAddTopic] = time.Now().UTC()
TopicWrite(p) ==
    /\ call[p].pc = "topic_write"
    /\ TimePasses
    /\ lastSuccess' = MapSet(lastSuccess, bPathAddTopic, clock')
    /\ call' = [call EXCEPT ![p].pc = "topic_return"]
    /\ UNCHANGED <<ncalls, responseCache, lastSuccessLock, lastStore,
                   callers>>

\* sendTopicNotice: return nil; the deferred Unlock runs
TopicReturn(p) ==
    /\ call[p].pc = "topic_return"
    /\ lastSuccessLock' = 0
    /\ call' = [call EXCEPT ![p] = Return(p, EmptyStr, ErrNil)]
    /\ UNCHANGED <<clock, ticks, ncalls, responseCache, lastSuccess, lastStore,
                   callers>>

(***************************************************************************)
(* The janitor of the cache.                                               *)
(***************************************************************************)
\* the janitor reads the clock and deletes the expired items
DeleteExpired ==
    /\ TimePasses
    /\ \E k \in DOMAIN responseCache : Expired(responseCache[k], clock')
    /\ responseCache' = [k \in {kk \in DOMAIN responseCache :
                                    ~Expired(responseCache[kk], clock')}
                            |-> responseCache[k]]
    /\ UNCHANGED <<ncalls, lastSuccess, lastSuccessLock, call, lastStore, callers>>

Next ==
    \/ \E p \in Procs : CallSendRemoteCommand(p)
    \/ \E p \in Procs : CallSendRemoteCommandCached(p)
    \/ \E p \in Procs : CachedGet(p)
    \/ \E p \in Procs : SrcSeal(p)
    \/ \E p \in Procs : SrcPost(p)
    \/ \E p \in Procs : SrcTransportError(p)
    \/ \E p \in Procs : SrcResponse(p)
    \/ \E p \in Procs : SrcStatus(p)
    \/ \E p \in Procs : SrcCacheHint(p)
    \/ \E p \in Procs : SrcNow(p)
    \/ \E p \in Procs : SrcLock(p)
    \/ \E p \in Procs : SrcWriteOther(p)
    \/ \E p \in Procs : SrcWriteBucket(p)
    \/ \E p \in Procs : SrcReturn(p)
    \/ \E p \in Procs : CallSendAggregatedData(p)
    \/ \E p \in Procs : AggSeal(p)
    \/ \E p \in Procs : AggPost(p)
    \/ \E p \in Procs : AggTransportError(p)
    \/ \E p \in Procs : AggResponse(p)
    \/ \E p \in Procs : AggLock(p)
    \/ \E p \in Procs : AggWrite(p)
    \/ \E p \in Procs : AggReturn(p)
    \/ \E p \in Procs : CallSendNewTopicNotice(p)
    \/ \E p \in Procs : CallSendCleanupTopicsNotice(p)
    \/ \E p \in Procs : TopicSeal(p)
    \/ \E p \in Procs : TopicPost(p)
    \/ \E p \in Procs : TopicTransportError(p)
    \/ \E p \in Procs : TopicResponse(p)
    \/ \E p \in Procs : TopicLock(p)
    \/ \E p \in Procs : TopicWrite(p)
    \/ \E p \in Procs : TopicReturn(p)
    \/ DeleteExpired

Spec == Init /\ [][Next]_vars

(***************************************************************************)
(* Definitions shared by the properties.                                   *)
(***************************************************************************)
CommandOps == {"SendRemoteCommand", "SendRemoteCommandCached"}
TopicOps == {"SendNewTopicNotice", "SendCleanupTopicsNotice"}

\* the cache key of the call of p
KeyOf(p) == getCacheKey(call[p].remoteCommand, call[p].data)

\* p takes a step
Steps(p) == call'[p] # call[p]

\* p returns in this step
Returns(p) == call[p].pc # "done" /\ call'[p].pc = "done"

\* p performs the lookup of SendRemoteCommandCached in this step
LooksUp(p) == call[p].pc = "cached_get" /\ call'[p].pc # "cached_get"

\* an optional sign followed by one or more decimal digits
IsIntegerText(s) ==
    LET ds == IF Len(s) > 0 /\ s[1] \in {"+", "-"} THEN Tail(s) ELSE s
    IN Len(ds) > 0 /\ \A i \in 1..Len(ds) : ds[i] \in
          {"0", "1", "2", "3", "4", "5", "6", "7", "8", "9"}

\* the call of p got a response and read its body
GotResponse(p) ==
    /\ call[p].op \in CommandOps
    /\ call[p].resp # NoResp
    /\ call[p].ret.err # ErrReadBody

(***************************************************************************)
(* C1.  After a 2xx response with FFZ-Cache: N is stored, the cached call  *)
(* for the same (command, data) is served from the cache as long as at     *)
(* most N seconds have passed since the store, and goes to the network     *)
(* once more than N seconds have passed.                                   *)
(***************************************************************************)
\* the lookup of p is a hit that returns the stored body without a POST
ServedFromCache(p, s) ==
    /\ call'[p].pc = "done"
    /\ call'[p].hit
    /\ call'[p].ret = MkRet(s.body, ErrNil)
    /\ call'[p].posts = 0

\* the lookup of p is a miss: the call goes on to SendRemoteCommand
GoesToNetwork(p) == call'[p].pc = "src_seal" /\ ~call'[p].hit

Representable(s) == s.hint * Second <= MaxInt /\ s.at + s.hint * Second <= MaxInt

Unexpired(k, now) ==
    /\ k \in DOMAIN responseCache
    /\ ~(responseCache[k].Expiration > 0 /\ now > responseCache[k].Expiration)

\* what a lookup does on an unexpired item is fixed by the command, the
\* data and the cache alone, for every AuthInfo the callers pass: it returns
\* the item, performs no POST and changes nothing else
C2_HitIgnoresAuth ==
    [][\A p \in Procs :
          (LooksUp(p) /\ Unexpired(KeyOf(p), clock')) =>
             /\ call'[p] = [call[p] EXCEPT
                               !.pc = "done", !.hit = TRUE,
                               !.ret = MkRet(responseCache[KeyOf(p)].Object, ErrNil)]
             /\ call'[p].posts = 0
             /\ \A q \in Procs \ {p} : call'[q] = call[q]
             /\ UNCHANGED <<responseCache, lastSuccess, lastSuccessLock,
                            lastStore>>]_vars

\* a caller with an unvalidated username was served the cached body
C2_Witness ==
    \E p \in Procs :
       /\ call[p].pc = "done"
       /\ call[p].hit
       /\ call[p].auth = MkAuth(<<"u">>, FALSE)
       /\ call[p].ret = MkRet(BodyR2, ErrNil)
       /\ call[p].posts = 0

(***************************************************************************)
(* C3.  A 401 whose body was read returns exactly ErrAuthorizationNeeded   *)
(* and an empty response, whatever the body and the headers.               *)
(***************************************************************************)
C3_UnauthorizedIsSentinel ==
    \A p \in Procs :
       (/\ call[p].pc = "done"
        /\ GotResponse(p)
        /\ call[p].resp.StatusCode = 401)
          => call[p].ret = MkRet(EmptyStr, ErrAuthorizationNeeded)

\* a 401 with a JSON body and the JSON content type returned the sentinel
C3_Witness ==
    \E p \in Procs :
       /\ call[p].pc = "done"
       /\ GotResponse(p)
       /\ call[p].resp.StatusCode = 401
       /\ call[p].resp.ContentType = AppJSON
       /\ call[p].ret.err = ErrAuthorizationNeeded

(***************************************************************************)
(* C4.  The error for a non-2xx response other than 401 is decided by the  *)
(* status, the base media type of the Content-Type and the body:           *)
(* ErrForwardedFromBackend with the decoded value for application/json     *)
(* with a JSON body, a decode error for application/json with another      *)
(* body, the generic HTTP error with the status for any other type.        *)
(***************************************************************************)
\* the content type up to the first ';', without surrounding white space
BaseTypeOf(ct) ==
    TrimSpace(IF \E i \in 1..Len(ct) : ct[i] = ";"
              THEN SubSeq(ct, 1, (CHOOSE i \in 1..Len(ct) :
                                     ct[i] = ";" /\ \A j \in 1..(i - 1) : ct[j] # ";") - 1)
              ELSE ct)

\* the JSON value of the body {"e": 1}
BodyJSONValue == <<"obj", << <<(<<"e">>), <<"num", <<"1">> >> >> >> >>

MalformedHint(r) ==
    /\ r.StatusCode >= 200
    /\ r.StatusCode <= 299
    /\ r.FFZCache # EmptyStr
    /\ ~IsIntegerText(r.FFZCache)

C6_MalformedHintFailsCall ==
    /\ [][\A p \in Procs :
             (Steps(p) /\ call[p].op \in CommandOps /\ MalformedHint(call[p].resp))
                => /\ responseCache' = responseCache
                   /\ lastSuccess' = lastSuccess]_vars
    /\ [](\A p \in Procs :
             (/\ call[p].op \in CommandOps
              /\ MalformedHint(call[p].resp)
              /\ call[p].ret.err # ErrReadBody)
                => /\ call[p].pc \in {"src_status", "src_cache", "done"}
                   /\ call[p].pc = "done" =>
                         /\ call[p].ret.responseStr = EmptyStr
                         /\ call[p].ret.err = ErrNonIntegerCacheDuration)

\* a call failed on the header FFZ-Cache: x of a 200 response
C6_Witness ==
    \E p \in Procs :
       /\ call[p].pc = "done"
       /\ call[p].resp.StatusCode = 200
       /\ call[p].resp.FFZCache = <<"x">>
       /\ call[p].ret = MkRet(EmptyStr, ErrNonIntegerCacheDuration)
       /\ KeyOf(p) \notin DOMAIN responseCache

(***************************************************************************)
(* C7.  A topic notice that receives a 2xx response sets the "/topics"     *)
(* bucket to a time not before the start of the call and returns nil; a    *)
(* failing one leaves the bucket as it is; neither changes another bucket  *)
(* or the cache.                                                           *)
(***************************************************************************)
\* every bucket other than b is as before, and no bucket came or went
OnlyBucketMayChange(b) ==
    /\ DOMAIN lastSuccess' = DOMAIN lastSuccess
    /\ \A x \in DOMAIN lastSuccess : x # b => lastSuccess'[x] = lastSuccess[x]

C7_TopicNoticeFrame ==
    [][\A p \in Procs :
          (Steps(p) /\ call'[p].op \in TopicOps) =>
             /\ responseCache' = responseCache
             /\ OnlyBucketMayChange(<<"/", "t", "o", "p", "i", "c", "s">>)
             /\ lastSuccess' # lastSuccess =>
                   /\ call[p].resp.StatusCode >= 200
                   /\ call[p].resp.StatusCode <= 299
                   /\ call'[p].pc = "topic_return"
             /\ Returns(p) =>
                   IF call'[p].resp.StatusCode >= 200 /\ call'[p].resp.StatusCode <= 299
                   THEN /\ call'[p].ret.err = ErrNil
                        /\ call[p].pc = "topic_return"
                        /\ lastSuccess'[<<"/", "t", "o", "p", "i", "c", "s">>]
                              >= call[p].start
                   ELSE /\ call'[p].ret.err # ErrNil
                        /\ call[p].pc \in {"topic_seal", "topic_wait"}]_vars

\* a topic notice returned nil after the clock advanced during the call
C7_Witness ==
    \E p \in Procs :
       /\ call[p].pc = "done"
       /\ call[p].op = "SendCleanupTopicsNotice"
       /\ call[p].ret.err = ErrNil
       /\ call[p].resp.StatusCode = 299
       /\ lastSuccess[bPathAddTopic] > call[p].start

(***************************************************************************)
(* C8.  SendAggregatedData on a 2xx response changes the "/stats" bucket   *)
(* and nothing else of the shared state; on a failure it changes nothing.  *)
(***************************************************************************)
C8_AggregatedDataFrame ==
    [][\A p \in Procs :
          (Steps(p) /\ call'[p].op = "SendAggregatedData") =>
             /\ responseCache' = responseCache
             /\ OnlyBucketMayChange(<<"/", "s", "t", "a", "t", "s">>)
             /\ lastSuccess' # lastSuccess =>
                   /\ call[p].resp.StatusCode >= 200
                   /\ call[p].resp.StatusCode <= 299
             /\ (/\ call[p].pc = "agg_lock"
                 /\ call[p].resp.StatusCode >= 200
                 /\ call[p].resp.StatusCode <= 299) => call'[p].pc = "agg_write"
             /\ call[p].pc = "agg_write" =>
                   lastSuccess'[<<"/", "s", "t", "a", "t", "s">>] = clock'
             /\ (Returns(p) /\ ~(/\ call'[p].resp.StatusCode >= 200
                                 /\ call'[p].resp.StatusCode <= 299)) =>
                   /\ call[p].pc \in {"agg_seal", "agg_wait"}
                   /\ call'[p].ret.err # ErrNil]_vars

\* a SendAggregatedData recorded its success while a command bucket exists
C8_Witness ==
    \E p \in Procs :
       /\ call[p].pc = "agg_return"
       /\ lastSuccess[bPathAggStats] = clock
       /\ lastSuccess[bPathOtherCommand] > epochTime
       /\ lastSuccess[bPathOtherCommand] < clock
       /\ DOMAIN responseCache # {}

(***************************************************************************)
(* C9.  Every call performs at most one POST, and none when sealing fails  *)
(* or when the cache lookup hits.                                          *)
(***************************************************************************)
C9_AtMostOnePost ==
    \A p \in Procs :
       /\ call[p].posts <= 1
       /\ (call[p].pc = "done" /\ call[p].ret.err = ErrSeal) => call[p].posts = 0
       /\ call[p].hit => call[p].posts = 0
       /\ (call[p].pc = "done" /\ call[p].ret.err.kind \in
              {"errTransport", "errReadBody", "ErrAuthorizationNeeded", "httpError",
               "ErrForwardedFromBackend", "errDecodeJSON", "ErrBackendNotOK",
               "errNonIntegerCacheDuration", "errClose"}) => call[p].posts = 1

\* a call that met a transport failure returned after one POST
C9_Witness ==
    \E p \in Procs :
       /\ call[p].pc = "done"
       /\ call[p].op = "SendRemoteCommandCached"
       /\ call[p].ret.err = ErrTransport
       /\ call[p].posts = 1

(***************************************************************************)
(* C10.  A cached call that finds its key absent or expired goes on to     *)
(* SendRemoteCommand and its own POST whatever the other calls are doing   *)
(* (it is never held back or merged with another call), so two requests    *)
(* for one cache key can be under way at once.                             *)
(***************************************************************************)
C10_NoSingleFlight ==
    [][\A p \in Procs :
          (LooksUp(p) /\ ~Unexpired(KeyOf(p), clock')) =>
             /\ call'[p] = [call[p] EXCEPT !.pc = "src_seal"]
             /\ \A q \in Procs \ {p} : call'[q] = call[q]]_vars

\* two cached calls for the same key both wait for the backend's response
C10_Witness ==
    \E p, q \in Procs :
       /\ p # q
       /\ call[p].op = "SendRemoteCommandCached"
       /\ call[q].op = "SendRemoteCommandCached"
       /\ call[p].pc = "src_wait"
       /\ call[q].pc = "src_wait"
       /\ KeyOf(p) = KeyOf(q)
       /\ call[p].posts = 1
       /\ call[q].posts = 1

(***************************************************************************)
(* C11.  SendRemoteCommandCached that finds a cached but expired response  *)
(* for (command, data) returns the existing, expired value to its caller   *)
(* (and the entry is updated in the background).                            *)
(***************************************************************************)
\* the item under key k is still in the cache and is expired at time now
CachedButExpired(k, now) ==
    /\ k \in DOMAIN responseCache
    /\ responseCache[k].Expiration > 0
    /\ now > responseCache[k].Expiration

\* C11 as the doc comment states it: the lookup of an expired item returns
\* the item's value with no error
C11_ExpiredValueReturned ==
    [][\A p \in Procs :
          (LooksUp(p) /\ CachedButExpired(KeyOf(p), clock')) =>
             /\ call'[p].pc = "done"
             /\ call'[p].ret = MkRet(responseCache[KeyOf(p)].Object, ErrNil)]_vars

(***************************************************************************)
(* C12.  A SendRemoteCommand call that returns an error leaves the         *)
(* response cache and every health bucket as they were: the call writes    *)
(* the cache only after a 2xx status and a well-formed hint, writes the    *)
(* buckets only after that, and returns no error once it has written.      *)
(***************************************************************************)
\* the steps of SendRemoteCommandCached and SendRemoteCommand, in order
SrcOrder ==
    <<"cached_get", "src_seal", "src_post", "src_wait", "src_status", "src_cache",
      "src_now", "src_lock", "src_write_other", "src_write_bucket", "src_return">>

RankOf(pc) == CHOOSE i \in 1..Len(SrcOrder) : SrcOrder[i] = pc

\* a call moves forward one step at a time or returns; its only write to
\* the cache is the step after the status check, which does not return; its
\* only writes to the buckets come later still; from the cache write on it
\* returns no error; so a return with an error comes from a step up to the
\* cache hint, changes nothing itself, and follows no write of the call
C12_ErrorLeavesStateAlone ==
    [][\A p \in Procs :
          (Steps(p) /\ call'[p].op \in CommandOps) =>
             /\ call[p].pc \notin {"idle", "done"} =>
                   \/ call'[p].pc = "done"
                   \/ RankOf(call'[p].pc) = RankOf(call[p].pc) + 1
             /\ responseCache' # responseCache =>
                   /\ call[p].pc = "src_cache"
                   /\ call'[p].pc = "src_now"
                   /\ call[p].resp.StatusCode >= 200
                   /\ call[p].resp.StatusCode <= 299
             /\ lastSuccess' # lastSuccess =>
                   call[p].pc \in {"src_write_other", "src_write_bucket"}
             /\ call[p].pc \in {"src_now", "src_lock", "src_write_other",
                                "src_write_bucket"} => call'[p].pc # "done"
             /\ call[p].pc = "src_return" => call'[p].ret.err = ErrNil
             /\ (Returns(p) /\ call'[p].ret.err # ErrNil) =>
                   /\ call[p].pc \in {"src_seal", "src_wait", "src_status",
                                      "src_cache"}
                   /\ UNCHANGED <<responseCache, lastSuccess>>]_vars

\* a call answered 500 with an FFZ-Cache header returned the backend's error
\* and the cache holds nothing for its key
C12_Witness ==
    \E p \in Procs :
       /\ call[p].pc = "done"
       /\ call[p].op = "SendRemoteCommand"
       /\ call[p].resp.StatusCode = 500
       /\ call[p].resp.FFZCache = <<"1">>
       /\ call[p].ret.err.kind = "ErrForwardedFromBackend"
       /\ KeyOf(p) \notin DOMAIN responseCache
       /\ \A b \in DOMAIN lastSuccess : lastSuccess[b] = epochTime

(***************************************************************************)
(* C13.  Along any interleaving of SendRemoteCommand, SendAggregatedData   *)
(* and topic-notice calls no health bucket's timestamp moves backwards:    *)
(* the value left in a bucket is the latest of the writers' timestamps.    *)
(***************************************************************************)
\* C13 as claimed: every step leaves every bucket at its value or later
C13_BucketsNeverGoBack ==
    [][\A b \in DOMAIN lastSuccess : lastSuccess'[b] >= lastSuccess[b]]_vars

(***************************************************************************)
(* C14.  Every write to lastSuccess is made by the holder of               *)
(* lastSuccessLock, at most one operation holds the lock at a time, every  *)
(* return of the operation that acquired it releases it, and the two       *)
(* writes of SendRemoteCommand are one critical section.                   *)
(***************************************************************************)
\* where an operation is between its Lock() and its deferred Unlock()
CriticalPcs ==
    {"src_write_other", "src_write_bucket", "src_return", "agg_write",
     "agg_return", "topic_write", "topic_return"}

\* p is inside its critical section
InCritical(p) == call[p].pc \in CriticalPcs

\* the lock is held exactly by the operation inside its critical section,
\* there is at most one such operation, a returned operation holds nothing,
\* and nobody else holds the lock while the two writes are half done
C14_LockState ==
    /\ \A p, q \in Procs : (InCritical(p) /\ InCritical(q)) => p = q
    /\ \A p \in Procs : InCritical(p) <=> lastSuccessLock = p
    /\ \A p \in Procs : call[p].pc \in {"idle", "done"} => lastSuccessLock # p
    /\ \A p \in Procs :
          call[p].pc = "src_write_bucket" =>
             /\ lastSuccessLock = p
             /\ lastSuccess[bPathOtherCommand] = call[p].now

\* every step that changes lastSuccess is a step of the lock holder, which
\* still holds the lock after it; the step between the two writes of
\* SendRemoteCommand keeps the lock; every return from a critical section
\* frees the lock
C14_LockDiscipline ==
    /\ []C14_LockState
    /\ [][/\ lastSuccess' # lastSuccess =>
                \E p \in Procs :
                   /\ lastSuccessLock = p
                   /\ lastSuccessLock' = p
                   /\ Steps(p)
                   /\ \A q \in Procs \ {p} : ~Steps(q)
          /\ \A p \in Procs :
                /\ (Steps(p) /\ call[p].pc = "src_write_other") =>
                      call'[p].pc = "src_write_bucket" /\ lastSuccessLock' = p
                /\ (Returns(p) /\ lastSuccessLock = p) => lastSuccessLock' = 0
                /\ (lastSuccessLock # 0 /\ lastSuccessLock' # lastSuccessLock) =>
                      lastSuccessLock' = 0]_vars

\* one caller is between the two writes of SendRemoteCommand while another
\* waits for the lock with its own success to record
C14_Witness ==
    \E p, q \in Procs :
       /\ p # q
       /\ call[p].pc = "src_write_bucket"
       /\ lastSuccessLock = p
       /\ call[q].pc \in {"src_lock", "agg_lock", "topic_lock"}

(***************************************************************************)
(* C15.  The health map always holds the four fixed buckets, each at the   *)
(* epoch until its first success; a bucket "/cmd/<name>" is present        *)
(* exactly when a SendRemoteCommand for <name> has succeeded; no bucket is *)
(* ever removed; "/startup" stays at the epoch.                            *)
(***************************************************************************)
FixedBuckets ==
    {<<"/", "s", "t", "a", "r", "t", "u", "p">>,
     <<"/", "t", "o", "p", "i", "c", "s">>,
     <<"/", "s", "t", "a", "t", "s">>,
     <<"/", "c", "m", "d", "/">>}

\* the name of the bucket of command name
CmdBucket(name) == <<"/", "c", "m", "d", "/">> \o name

\* the response of p has a 2xx status and a hint that is absent or an integer
SucceededResponse(p) ==
    /\ call[p].resp # NoResp
    /\ call[p].resp.StatusCode >= 200
    /\ call[p].resp.StatusCode <= 299
    /\ (call[p].resp.FFZCache = EmptyStr \/ IsIntegerText(call[p].resp.FFZCache))

\* p is recording or has recorded the success of the operation op
Succeeding(p, pc, ops) ==
    /\ Steps(p)
    /\ call[p].pc = pc
    /\ call[p].op \in ops
    /\ SucceededResponse(p)

C15_HealthMapShape ==
    /\ [](/\ FixedBuckets \subseteq DOMAIN lastSuccess
          /\ lastSuccess[<<"/", "s", "t", "a", "r", "t", "u", "p">>] = epochTime
          /\ \A b \in DOMAIN lastSuccess \ FixedBuckets :
                \E r \in Requests : b = CmdBucket(r[1]))
    /\ [][/\ DOMAIN lastSuccess \subseteq DOMAIN lastSuccess'
          /\ \A b \in DOMAIN lastSuccess' \ DOMAIN lastSuccess :
                \E p \in Procs :
                   /\ Succeeding(p, "src_write_bucket", CommandOps)
                   /\ b = CmdBucket(call[p].remoteCommand)
                   /\ call'[p].pc = "src_return"
          /\ \A p \in Procs :
                /\ (Steps(p) /\ call[p].pc = "src_return") =>
                      /\ call'[p].ret.err = ErrNil
                      /\ CmdBucket(call[p].remoteCommand) \in DOMAIN lastSuccess
                /\ (/\ Returns(p)
                    /\ call[p].op \in CommandOps
                    /\ call'[p].ret.err = ErrNil
                    /\ ~call'[p].hit) =>
                      /\ call[p].pc = "src_return"
                      /\ CmdBucket(call[p].remoteCommand) \in DOMAIN lastSuccess'
          /\ \A b \in FixedBuckets :
                lastSuccess'[b] # lastSuccess[b] =>
                   \E p \in Procs :
                      \/ /\ b = <<"/", "t", "o", "p", "i", "c", "s">>
                         /\ Succeeding(p, "topic_write", TopicOps)
                      \/ /\ b = <<"/", "s", "t", "a", "t", "s">>
                         /\ Succeeding(p, "agg_write", {"SendAggregatedData"})
                      \/ /\ b = <<"/", "c", "m", "d", "/">>
                         /\ Succeeding(p, "src_write_other", CommandOps)]_vars

\* both commands have their bucket, one call failed in between or not, and
\* "/startup" is still at the epoch
C15_Witness ==
    /\ CmdBucket(CmdA) \in DOMAIN lastSuccess
    /\ CmdBucket(CmdAB) \in DOMAIN lastSuccess
    /\ lastSuccess[bPathAnnounceStartup] = epochTime
    /\ lastSuccess[bPathOtherCommand] > epochTime

(***************************************************************************)
(* C16.  What SendAggregatedData returns: nil on a 2xx response, the       *)
(* generic HTTP error with the status code on any other status, and an     *)
(* error in no other case but a seal or transport failure.                 *)
(***************************************************************************)
\* C16 as claimed: a call that got a 2xx response has returned nil
C16_Every2xxReturnsNil ==
    \A p \in Procs :
       (/\ call[p].pc = "done"
        /\ call[p].op = "SendAggregatedData"
        /\ call[p].resp # NoResp
        /\ call[p].resp.StatusCode >= 200
        /\ call[p].resp.StatusCode <= 299) => call[p].ret.err = ErrNil

\* C16 amended: on a 2xx response the call records the success and returns
\* what closing the response body returns, nil or the error of the close;
\* on another status it returns httpError(status) and records nothing;
\* without a response it returns the seal or the transport error
C16_2xxReturnsCloseResult ==
    [][\A p \in Procs :
          (Returns(p) /\ call[p].op = "SendAggregatedData") =>
             IF call'[p].resp = NoResp
             THEN /\ \/ call[p].pc = "agg_seal" /\ call'[p].ret.err = ErrSeal
                     \/ call[p].pc = "agg_wait" /\ call'[p].ret.err = ErrTransport
                  /\ lastSuccess' = lastSuccess
             ELSE IF /\ call'[p].resp.StatusCode >= 200
                     /\ call'[p].resp.StatusCode <= 299
             THEN /\ call[p].pc = "agg_return"
                  /\ call'[p].ret.err \in {ErrNil, ErrClose}
                  /\ lastSuccess[<<"/", "s", "t", "a", "t", "s">>] > epochTime
                  /\ lastSuccess' = lastSuccess
             ELSE /\ call[p].pc = "agg_wait"
                  /\ call'[p].ret.err =
                        MkErr("httpError", call'[p].resp.StatusCode, << >>,
                              EmptyStr)
                  /\ lastSuccess' = lastSuccess]_vars

\* a call answered 200 recorded its success and returned the close error
C16_Witness ==
    \E p \in Procs :
       /\ call[p].pc = "done"
       /\ call[p].op = "SendAggregatedData"
       /\ call[p].resp.StatusCode = 200
       /\ call[p].ret.err = ErrClose
       /\ lastSuccess[bPathAggStats] > epochTime

(***************************************************************************)
(* C17.  Under fair scheduling, every POST returning a response or a       *)
(* transport error, every invocation returns to its caller: nobody waits   *)
(* forever for lastSuccessLock, nobody takes the lock while holding it or  *)
(* holds it across the POST.                                               *)
(***************************************************************************)
\* a step of the call of p other than the acquisition of the lock; the
\* steps at the wait for the backend are the return of the POST
CallStep(p) ==
    \/ CachedGet(p)
    \/ SrcSeal(p) \/ SrcPost(p) \/ SrcTransportError(p) \/ SrcResponse(p)
    \/ SrcStatus(p) \/ SrcCacheHint(p) \/ SrcNow(p)
    \/ SrcWriteOther(p) \/ SrcWriteBucket(p) \/ SrcReturn(p)
    \/ AggSeal(p) \/ AggPost(p) \/ AggTransportError(p) \/ AggResponse(p)
    \/ AggWrite(p) \/ AggReturn(p)
    \/ TopicSeal(p) \/ TopicPost(p) \/ TopicTransportError(p) \/ TopicResponse(p)
    \/ TopicWrite(p) \/ TopicReturn(p)

\* lastSuccessLock.Lock() returns
LockStep(p) == SrcLock(p) \/ AggLock(p) \/ TopicLock(p)

\* the server some time into its life, when concurrent callers arrive: an
\* earlier SendRemoteCommand(CmdA, DataBC) was answered 200 with FFZ-Cache: 1
\* at boot time, its entry has expired since and the janitor has not run
\* yet; no further advance of the clock is seen
InitAfterExpiry ==
    /\ clock = BootSecs * Second + MaxTicks * Second
    /\ ticks = MaxTicks
    /\ ncalls = 0
    /\ responseCache = cacheSet(<< >>, getCacheKey(CmdA, DataBC), BodyR2,
                                DurationOfSecs(1), BootSecs * Second)
    /\ lastSuccess = MapSet(MapSet([b \in {bPathAnnounceStartup, bPathAddTopic,
                                            bPathAggStats, bPathOtherCommand}
                                       |-> epochTime],
                                   bPathOtherCommand, BootSecs * Second),
                            healthBucketOf(CmdA), BootSecs * Second)
    /\ lastSuccessLock = 0
    /\ call = [p \in Procs |-> IdleCall]
    /\ lastStore = MapSet(<< >>, getCacheKey(CmdA, DataBC),
                          [at |-> BootSecs * Second, hint |-> 1, body |-> BodyR2,
                           req |-> <<CmdA, DataBC>>])
    /\ callers = Procs

\* the scheduler runs every goroutine that can run, and a goroutine that
\* waits for the mutex gets it if it is free again and again
FairSpec ==
    /\ InitAfterExpiry
    /\ [][Next]_vars
    /\ \A p \in Procs : WF_vars(CallStep(p)) /\ SF_vars(LockStep(p))

\* p is in a call that has not returned
Running(p) == call[p].pc \notin {"idle", "done"}

C17_EveryCallReturns ==
    /\ [](\A p \in Procs :
             /\ call[p].pc \in {"src_lock", "agg_lock", "topic_lock"} =>
                   lastSuccessLock # p
             /\ (Running(p) /\ ~InCritical(p)) => lastSuccessLock # p)
    /\ \A p \in Procs : Running(p) ~> call[p].pc = "done"

\* two callers wait for the lock at once, both with a success to record
C17_Witness ==
    \E p, q \in Procs :
       /\ p # q
       /\ call[p].pc = "src_write_other"
       /\ call[q].pc = "topic_lock"
       /\ call[q].posts = 1
       /\ call[p].posts = 1

(***************************************************************************)
(* C18.  The cache key identifies the (command, data) pair: a hit of       *)
(* SendRemoteCommandCached(c, d, _) returns a body that the backend        *)
(* returned in a 2xx response to a request for command c with data d,      *)
(* for all strings c and d, those containing '/' included.                 *)
(***************************************************************************)
\* C18 as claimed: the body a hit returns was stored from the response to a
\* request with the command and the data of the call that hits
C18_HitReturnsOwnRequestsBody ==
    [][\A p \in Procs :
          (LooksUp(p) /\ call'[p].hit) =>
             /\ KeyOf(p) \in DOMAIN lastStore
             /\ call'[p].ret.responseStr = lastStore[KeyOf(p)].body
             /\ lastStore[KeyOf(p)].req = <<call[p].remoteCommand, call[p].data>>]_vars

(***************************************************************************)
(* C19.  In every reachable state the generic "/cmd/" bucket is at least   *)
(* every "/cmd/<name>" bucket of the map: it is the most recent success    *)
(* time over all commands.                                                 *)
(***************************************************************************)
\* C19 as claimed
C19_GenericBucketIsLatest ==
    \A r \in Requests :
       CmdBucket(r[1]) \in DOMAIN lastSuccess =>
          lastSuccess[<<"/", "c", "m", "d", "/">>] >= lastSuccess[CmdBucket(r[1])]

(***************************************************************************)
(* C20.  A SendRemoteCommandCached that hits is read-only: no health       *)
(* bucket changes and the entry it returns keeps its value and its expiry; *)
(* and a 2xx response without FFZ-Cache header leaves the existing entry   *)
(* of its key in the cache as it is.                                       *)
(***************************************************************************)
C20_HitAndNoHintReadOnly ==
    [][\A p \in Procs :
          /\ (LooksUp(p) /\ call'[p].hit) =>
                /\ lastSuccess' = lastSuccess
                /\ DOMAIN responseCache' = DOMAIN responseCache
                /\ responseCache'[KeyOf(p)].Object = responseCache[KeyOf(p)].Object
                /\ responseCache'[KeyOf(p)].Expiration
                      = responseCache[KeyOf(p)].Expiration
                /\ call'[p].ret.responseStr = responseCache[KeyOf(p)].Object
          /\ (/\ Steps(p)
              /\ call[p].pc = "src_cache"
              /\ call[p].resp.FFZCache = EmptyStr) =>
                /\ call'[p].pc = "src_now"
                /\ responseCache' = responseCache
          /\ (/\ Steps(p)
              /\ call[p].op \in CommandOps
              /\ call[p].resp # NoResp
              /\ call[p].resp.FFZCache = EmptyStr) =>
                responseCache' = responseCache]_vars

\* a 200 response without FFZ-Cache header has passed the cache step while
\* the cache holds, for its key, an entry with another body
C20_Witness ==
    \E p \in Procs :
       /\ call[p].pc = "src_now"
       /\ call[p].op = "SendRemoteCommand"
       /\ call[p].resp.FFZCache = EmptyStr
       /\ KeyOf(p) \in DOMAIN responseCache
       /\ responseCache[KeyOf(p)].Object # call[p].responseStr

====
